---- MODULE Spec2Model ----
(***************************************************************************)
(* Model of the kpng iptables service change tracker and services          *)
(* snapshot (backends/iptables/service.go) together with the service skip  *)
(* policy of backends/userspacelin/userspace_util.go.                      *)
(*                                                                         *)
(* The state is one ServiceChangeTracker (items) and one ServicesSnapshot. *)
(* The operations are ServiceChangeTracker.Update, .Delete and             *)
(* ServicesSnapshot.Update (called Apply below, as in the specification).  *)
(* Specification Spec runs these.                                          *)
(*                                                                         *)
(* The second part models the BoundedFrequencyRunner of userspace_util.go: *)
(* its Loop goroutine, the callers of Run and RetryAfter, the timer, the   *)
(* rate limiter and a clock that advances in ticks.  Specification SpecBFR *)
(* runs these.                                                             *)
(* Specification SpecBurst runs one runner with burst_runs = 2 and more     *)
(* calls of Run, for the scenario of an exhausted burst.                   *)
(* Specification SpecQps runs runners with intervals of tenths of a second *)
(* and the clock in nanoseconds, where the rounding of the rate that       *)
(* construct computes in float32 shows.                                    *)
(***************************************************************************)
EXTENDS Integers, Sequences, FiniteSets, TLC

VARIABLES
    ipFamily,         \* ServiceChangeTracker.ipFamily
    makeServiceInfo,  \* ServiceChangeTracker.makeServiceInfo ("nil" or "newServiceInfo")
    items,            \* ServiceChangeTracker.items : NamespacedName -> *serviceChange
    snapshot,         \* ServicesSnapshot : NamespacedName -> serviceChange
    result,           \* UpdateServiceMapResult returned by the last call, when it was Apply
    ret,              \* bool returned by the last call, when it was Update or Delete
    panicked,         \* a nil pointer dereference has terminated the process
    last,             \* the last call: "Init", "Update", "Delete", "Apply" or "Panic"
    log,              \* history: the Update/Delete calls made since the last Apply
    applied,          \* history: what the last Apply started from and consumed
    bfr,              \* the BoundedFrequencyRunner struct (with its timer and limiter)
    clock,            \* the time, in ticks (in nanoseconds in SpecQps)
    loop,             \* where the Loop goroutine is
    stopCh,           \* the stop channel handed to Loop has been closed
    fnActive,         \* the number of invocations of fn in progress
    hist              \* history of the runner: times of starts and returns, calls made

svcVars == <<ipFamily, makeServiceInfo, items, snapshot, result, ret, panicked, last, log, applied>>

bfrVars == <<bfr, clock, loop, stopCh, fnActive, hist>>

vars == <<svcVars, bfrVars>>

\* The number of Update/Delete calls explored between two Applies.
MaxOps == 3

(***************************************************************************)
(* Values                                                                  *)
(***************************************************************************)

\* A Go map with no entries (a nil map and an empty map read the same).
EmptyMap == [x \in {} |-> 0]

\* localnetv1.Protocol is the protobuf enum of the API package: a named
\* integer type whose values stand for the protocol names.
Protocol_TCP == 1
Protocol_UDP == 2
Protocol_SCTP == 3

\* string(p) for p of the integer type localnetv1.Protocol: Go converts an
\* integer to the string holding the one code point of that value.
\* Strings compared by the code are modelled as their code point sequences.
ProtocolToString(p) == <<p>>

\* string(v1.ProtocolUDP): the Kubernetes constant "UDP" (U = 85, D = 68, P = 80).
V1ProtocolUDP == <<85, 68, 80>>

\* v1.ServiceTypeExternalName
ServiceTypeExternalName == "ExternalName"

\* types.NamespacedName{Namespace, Name}
NamespacedName(ns, name) == <<ns, name>>

\* ServicePortName{NamespacedName, Port, Protocol}
ServicePortName(svcName, port, protocol) == <<svcName, port, protocol>>

\* net.ParseIP: the addresses of the model are in canonical text form; any
\* other text does not parse and gives the nil IP.
ValidIPs == {"10.0.0.1", "10.0.0.2", "fd00::1"}
NilIP == "nil-ip"
ParseIP(s) == IF s \in ValidIPs THEN s ELSE NilIP

\* net.IP.String
IPString(ip) == IF ip = NilIP THEN "<nil>" ELSE ip

\* The nil *localnetv1.Service.
NilService ==
    [isNil |-> TRUE, Namespace |-> "", Name |-> "", Type |-> "",
     V4 |-> <<>>, V6 |-> <<>>, Ports |-> <<>>]

Svc(ns, name, type, v4, v6, ports) ==
    [isNil |-> FALSE, Namespace |-> ns, Name |-> name, Type |-> type,
     V4 |-> v4, V6 |-> v6, Ports |-> ports]

\* localnetv1.PortMapping
PortMapping(name, protocol, port) == [Name |-> name, Protocol |-> protocol, Port |-> port]

\* The services the informer delivers in the model.
Services ==
    { Svc("a", "b", "ClusterIP", <<"10.0.0.1">>, <<>>,
          <<PortMapping("p", Protocol_UDP, 53)>>),
      Svc("a", "b", "ClusterIP", <<"10.0.0.1">>, <<>>,
          <<PortMapping("p", Protocol_TCP, 80)>>),
      Svc("a", "b", "ExternalName", <<>>, <<>>,
          <<PortMapping("p", Protocol_TCP, 80)>>),
      Svc("a", "b", "ExternalName", <<"10.0.0.1">>, <<>>,
          <<PortMapping("p", Protocol_TCP, 80)>>),
      Svc("a", "c", "ClusterIP", <<"10.0.0.2">>, <<"fd00::1">>,
          <<PortMapping("p", Protocol_UDP, 53), PortMapping("q", Protocol_TCP, 80)>>) }

Keys == { NamespacedName(s.Namespace, s.Name) : s \in Services }

KeyOf(s) == NamespacedName(s.Namespace, s.Name)

Range(f) == { f[x] : x \in DOMAIN f }

(***************************************************************************)
(* Service skip policy                                                     *)
(***************************************************************************)

IsServiceIPSet(service) == Len(service.V4) > 0 \/ Len(service.V6) > 0

ShouldSkipService(service) ==
    IF ~IsServiceIPSet(service) THEN TRUE
    ELSE IF service.Type = ServiceTypeExternalName THEN TRUE
    ELSE FALSE

(***************************************************************************)
(* ServiceChangeTracker                                                    *)
(***************************************************************************)

\* The first cluster IP of the given family, "" when the service has none.
GetClusterIPByFamily(family, service) ==
    IF family = "IPv4"
    THEN IF Len(service.V4) > 0 THEN service.V4[1] ELSE ""
    ELSE IF Len(service.V6) > 0 THEN service.V6[1] ELSE ""

\* The fields of BaseServiceInfo the tracker and the snapshot read.
\* healthCheckNodePort is never assigned and keeps Go's zero value.
newBaseServiceInfo(family, port, service) ==
    [kind |-> "BaseServiceInfo",
     clusterIP |-> ParseIP(GetClusterIPByFamily(family, service)),
     port |-> port.Port,
     portName |-> port.Name,
     protocol |-> port.Protocol,
     healthCheckNodePort |-> 0]

\* newServiceInfo wraps the base info in a *serviceInfo.
newServiceInfo(port, service, baseInfo) == [baseInfo EXCEPT !.kind = "serviceInfo"]

\* serviceToServiceMap: a nil map when the service has no cluster IP of the
\* tracker's family, else one entry per port, a later port of the same
\* ServicePortName replacing an earlier one.
serviceToServiceMap(family, mk, service) ==
    IF service.isNil THEN EmptyMap
    ELSE IF GetClusterIPByFamily(family, service) = "" THEN EmptyMap
    ELSE LET svcName == NamespacedName(service.Namespace, service.Name)
             spn(i) == ServicePortName(svcName, service.Ports[i].Name, service.Ports[i].Protocol)
             lastIdx(n) == CHOOSE i \in DOMAIN service.Ports :
                              /\ spn(i) = n
                              /\ \A j \in DOMAIN service.Ports : spn(j) = n => j <= i
             info(i) == LET base == newBaseServiceInfo(family, service.Ports[i], service)
                        IN IF mk # "nil" THEN newServiceInfo(service.Ports[i], service, base)
                           ELSE base
         IN [n \in { spn(i) : i \in DOMAIN service.Ports } |-> info(lastIdx(n))]

\* A *serviceChange: the nil pointer, or a pointer to a port map.
NilChange == [isNil |-> TRUE, ports |-> EmptyMap]
PtrTo(m) == [isNil |-> FALSE, ports |-> m]

\* m with m[k] = v
MapPut(m, k, v) == [x \in (DOMAIN m) \cup {k} |-> IF x = k THEN v ELSE m[x]]

\* delete(m, k)
MapDelete(m, k) == [x \in (DOMAIN m) \ {k} |-> m[x]]

\* Update as it would be with the nil check returning the size test as well.
UpdateItems_nilReturnsSize(family, mk, its, current) ==
    IF current.isNil
    THEN [items |-> its, ret |-> Cardinality(DOMAIN its) > 0, panic |-> FALSE]
    ELSE LET namespacedName == NamespacedName(current.Namespace, current.Name)
             new == MapPut(its, namespacedName, PtrTo(serviceToServiceMap(family, mk, current)))
         IN IF namespacedName \in DOMAIN its /\ its[namespacedName].isNil
            THEN [items |-> its, ret |-> FALSE, panic |-> TRUE]
            ELSE [items |-> new, ret |-> Cardinality(DOMAIN new) > 0, panic |-> FALSE]

\* Update as it would be if an existing pending change were kept.
UpdateItems_keepFirst(family, mk, its, current) ==
    IF current.isNil THEN [items |-> its, ret |-> FALSE, panic |-> FALSE]
    ELSE LET namespacedName == NamespacedName(current.Namespace, current.Name)
             new == MapPut(its, namespacedName, PtrTo(serviceToServiceMap(family, mk, current)))
         IN IF namespacedName \notin DOMAIN its
            THEN [items |-> new, ret |-> Cardinality(DOMAIN new) > 0, panic |-> FALSE]
            ELSE IF its[namespacedName].isNil
            THEN [items |-> its, ret |-> FALSE, panic |-> TRUE]
            ELSE [items |-> its, ret |-> Cardinality(DOMAIN its) > 0, panic |-> FALSE]

\* ServiceChangeTracker.Update: [items, ret, panic].  A nil service returns
\* false at once.  A key Delete left mapped to the nil pointer is found in the
\* map (ok is true), so no serviceChange is allocated and the assignment
\* through the nil pointer panics.
UpdateItems(family, mk, its, current) ==
    IF current.isNil THEN [items |-> its, ret |-> FALSE, panic |-> FALSE]
    ELSE LET namespacedName == NamespacedName(current.Namespace, current.Name)
             change == serviceToServiceMap(family, mk, current)
         IN IF namespacedName \notin DOMAIN its
            THEN LET new == MapPut(its, namespacedName, PtrTo(change))
                 IN [items |-> new, ret |-> Cardinality(DOMAIN new) > 0, panic |-> FALSE]
            ELSE IF its[namespacedName].isNil
            THEN [items |-> its, ret |-> FALSE, panic |-> TRUE]
            ELSE LET new == MapPut(its, namespacedName, PtrTo(change))
                 IN [items |-> new, ret |-> Cardinality(DOMAIN new) > 0, panic |-> FALSE]

\* Delete as it would be if it only marked keys with no pending change.
DeleteItems_keepExisting(its, namespace, name) ==
    LET k == NamespacedName(namespace, name)
        new == IF k \in DOMAIN its THEN its ELSE MapPut(its, k, NilChange)
    IN [items |-> new, ret |-> Cardinality(DOMAIN new) > 0]

\* ServiceChangeTracker.Delete: [items, ret].
DeleteItems(its, namespace, name) ==
    LET new == MapPut(its, NamespacedName(namespace, name), NilChange)
    IN [items |-> new, ret |-> Cardinality(DOMAIN new) > 0]

(***************************************************************************)
(* ServicesSnapshot                                                        *)
(***************************************************************************)

\* merge as it would be if a change were laid over the stored entry.
merge_keepsOld(snap, stale, svcName, other) ==
    IF other.isNil
    THEN LET old == IF svcName \in DOMAIN snap THEN Range(snap[svcName]) ELSE {}
             udp == { IPString(svcInfo.clusterIP) :
                        svcInfo \in { i \in old : ProtocolToString(i.protocol) = V1ProtocolUDP } }
         IN [snap |-> MapDelete(snap, svcName), stale |-> stale \cup udp]
    ELSE LET prev == IF svcName \in DOMAIN snap THEN snap[svcName] ELSE EmptyMap
             both == [n \in DOMAIN prev \cup DOMAIN other.ports |->
                        IF n \in DOMAIN other.ports THEN other.ports[n] ELSE prev[n]]
         IN [snap |-> MapPut(snap, svcName, both), stale |-> stale]

\* merge as it would be if a deletion reported every port of the entry.
merge_allProtocols(snap, stale, svcName, other) ==
    IF other.isNil
    THEN LET old == IF svcName \in DOMAIN snap THEN Range(snap[svcName]) ELSE {}
             all == { IPString(svcInfo.clusterIP) : svcInfo \in old }
         IN [snap |-> MapDelete(snap, svcName), stale |-> stale \cup all]
    ELSE [snap |-> MapPut(snap, svcName, other.ports), stale |-> stale]

\* ServicesSnapshot.merge: [snap, stale].
merge(snap, stale, svcName, other) ==
    IF other.isNil
    THEN LET old == IF svcName \in DOMAIN snap THEN Range(snap[svcName]) ELSE {}
             udp == { IPString(svcInfo.clusterIP) :
                        svcInfo \in { i \in old : ProtocolToString(i.protocol) = V1ProtocolUDP } }
         IN [snap |-> MapDelete(snap, svcName), stale |-> stale \cup udp]
    ELSE [snap |-> MapPut(snap, svcName, other.ports), stale |-> stale]

\* The range loop of ServicesSnapshot.apply over the keys still to visit.
RECURSIVE applyLoop(_, _, _, _)
applyLoop(snap, stale, its, todo) ==
    IF todo = {} THEN [snap |-> snap, stale |-> stale]
    ELSE LET svcName == CHOOSE k \in todo : TRUE
             m == merge(snap, stale, svcName, its[svcName])
         IN applyLoop(m.snap, m.stale, its, todo \ {svcName})

\* apply as it would be if the range loop passed over the nil changes.
apply_skipsDeletions(snap, its, stale) ==
    LET r == applyLoop(snap, stale, its, { k \in DOMAIN its : ~its[k].isNil })
    IN [snap |-> r.snap, stale |-> r.stale, items |-> EmptyMap]

\* apply as it would be without the reset of the tracker's map.
apply_keepItems(snap, its, stale) ==
    LET r == applyLoop(snap, stale, its, DOMAIN its)
    IN [snap |-> r.snap, stale |-> r.stale, items |-> its]

\* ServicesSnapshot.apply: [snap, stale, items]; the tracker's map is
\* replaced by a fresh empty one.
apply(snap, its, stale) ==
    LET r == applyLoop(snap, stale, its, DOMAIN its)
    IN [snap |-> r.snap, stale |-> r.stale, items |-> EmptyMap]

\* The health check test as it would be with the comparison inverted.
HasHealthCheckNodePort_inverted(svcInfo) == svcInfo.healthCheckNodePort = 0

\* The test of the health check loop of ServicesSnapshot.Update on one port.
HasHealthCheckNodePort(svcInfo) == svcInfo.healthCheckNodePort # 0

\* uint16(n) for an int n: the low 16 bits.
Uint16(n) == n % 65536

\* The rebuild of HCServiceNodePorts from the whole snapshot: only values
\* that are *serviceInfo are read, and the port stored for a key is that of
\* the port the range over the Go map visits last, converted to uint16.  The
\* order of the range is not defined: the maps the loop can build.
HCServiceNodePorts(snap) ==
    LET hc(k) == { svc \in Range(snap[k]) :
                     svc.kind = "serviceInfo" /\ HasHealthCheckNodePort(svc) }
        ports(k) == { Uint16(svc.healthCheckNodePort) : svc \in hc(k) }
        keys == { n \in DOMAIN snap : hc(n) # {} }
    IN { f \in [keys -> UNION { ports(k) : k \in keys }] :
           \A k \in keys : f[k] \in ports(k) }

\* ServicesSnapshot.Update: [snap, items, results], results being the
\* values the call can return.
SnapshotUpdate(snap, its) ==
    LET a == apply(snap, its, {})
    IN [snap |-> a.snap, items |-> a.items,
        results |-> { [HCServiceNodePorts |-> h, UDPStaleClusterIP |-> a.stale] :
                        h \in HCServiceNodePorts(a.snap) }]

EmptyResult == [HCServiceNodePorts |-> EmptyMap, UDPStaleClusterIP |-> {}]

(***************************************************************************)
(* The state machine                                                       *)
(***************************************************************************)

\* A call in the history.
UpdateCall(svc) == [op |-> "Update", svc |-> svc, key |-> KeyOf(svc)]
DeleteCall(k) == [op |-> "Delete", svc |-> NilService, key |-> k]

NoApply == [valid |-> FALSE, pre |-> EmptyMap, pending |-> EmptyMap, ops |-> <<>>]

\* The tracker and the snapshot as constructed, with nothing called yet.
InitTracker(families, adapters) ==
    /\ ipFamily \in families
    /\ makeServiceInfo \in adapters
    /\ items = EmptyMap
    /\ snapshot = EmptyMap
    /\ result = EmptyResult
    /\ ret = FALSE
    /\ panicked = FALSE
    /\ last = "Init"
    /\ log = <<>>
    /\ applied = NoApply

\* No runner is part of the tracker's specification.
NoRunner ==
    /\ bfr = EmptyMap
    /\ clock = 0
    /\ loop = "none"
    /\ stopCh = FALSE
    /\ fnActive = 0
    /\ hist = EmptyMap

\* NewServiceChangeTracker and an empty ServicesSnapshot.
Init ==
    /\ InitTracker({"IPv4", "IPv6"}, {"nil", "newServiceInfo"})
    /\ NoRunner

\* Update as it would be if it also stored the port map in the snapshot.
Update_writesSnapshot(current) ==
    /\ ~panicked
    /\ Len(log) < MaxOps
    /\ LET u == UpdateItems(ipFamily, makeServiceInfo, items, current)
       IN /\ items' = u.items
          /\ panicked' = u.panic
          /\ ret' = u.ret
          /\ last' = IF u.panic THEN "Panic" ELSE "Update"
          /\ snapshot' = IF current.isNil \/ u.panic THEN snapshot
                         ELSE MapPut(snapshot, KeyOf(current), u.items[KeyOf(current)].ports)
    /\ log' = Append(log, UpdateCall(current))
    /\ result' = EmptyResult
    /\ applied' = NoApply
    /\ UNCHANGED <<ipFamily, makeServiceInfo>>
    /\ UNCHANGED bfrVars

\* sct.Update(current)
Update(current) ==
    /\ ~panicked
    /\ Len(log) < MaxOps
    /\ LET u == UpdateItems(ipFamily, makeServiceInfo, items, current)
       IN /\ items' = u.items
          /\ panicked' = u.panic
          /\ ret' = u.ret
          /\ last' = IF u.panic THEN "Panic" ELSE "Update"
    /\ log' = Append(log, UpdateCall(current))
    /\ result' = EmptyResult
    /\ applied' = NoApply
    /\ UNCHANGED <<ipFamily, makeServiceInfo, snapshot>>
    /\ UNCHANGED bfrVars

\* sct.Delete(namespace, name)
Delete(namespace, name) ==
    /\ ~panicked
    /\ Len(log) < MaxOps
    /\ LET d == DeleteItems(items, namespace, name)
       IN /\ items' = d.items
          /\ ret' = d.ret
    /\ last' = "Delete"
    /\ log' = Append(log, DeleteCall(NamespacedName(namespace, name)))
    /\ result' = EmptyResult
    /\ applied' = NoApply
    /\ UNCHANGED <<ipFamily, makeServiceInfo, snapshot, panicked>>
    /\ UNCHANGED bfrVars

\* svcSnap.Update(changes)
Apply ==
    /\ ~panicked
    /\ LET a == SnapshotUpdate(snapshot, items)
       IN /\ snapshot' = a.snap
          /\ items' = a.items
          /\ result' \in a.results
    /\ ret' = FALSE
    /\ last' = "Apply"
    /\ applied' = [valid |-> TRUE, pre |-> snapshot, pending |-> items, ops |-> log]
    /\ log' = <<>>
    /\ UNCHANGED <<ipFamily, makeServiceInfo, panicked>>
    /\ UNCHANGED bfrVars

Next ==
    \/ \E current \in Services \cup {NilService} : Update(current)
    \/ \E k \in Keys : Delete(k[1], k[2])
    \/ Apply

Spec == Init /\ [][Next]_vars

TypeOK ==
    /\ DOMAIN items \subseteq Keys
    /\ DOMAIN snapshot \subseteq Keys
    /\ panicked \in BOOLEAN
    /\ ret \in BOOLEAN
    /\ Len(log) <= MaxOps

(***************************************************************************)
(* BoundedFrequencyRunner: values                                          *)
(***************************************************************************)

\* The last tick of the clock that is explored.
MaxTime == 10

\* The longest run of fn, in ticks.
MaxFnTime == 2

\* The ticks that a caller of RetryAfter is followed through between its
\* reading of the clock and its getting retryMu.
MaxLag == 1

\* The number of calls of Run and RetryAfter that are explored.
MaxCalls == 2

\* The number of calls of Run that are explored with the runner of bursts.
MaxRuns == 3

\* time.Time{}, the zero time, which is before every time of the clock.
ZeroTime == 0 - 1

\* A nil timer.
NilTimer == [nil |-> TRUE]

\* time.Second: a time.Duration counts nanoseconds.
Second == 1000000000

\* The timer of newBoundedFrequencyRunner: it has ticked and the tick was
\* consumed, and next was never set.  It is the clock of the runner and of
\* its limiter; unit is what one unit of the clock stands for, in
\* nanoseconds: a second here.
NewTimer == [active |-> FALSE, next |-> ZeroTime, C |-> 0, unit |-> Second]

\* The same timer, for a clock that is followed nanosecond by nanosecond.
NanoTimer == [NewTimer EXCEPT !.unit = 1]

\* The arguments construct is called with, in units of the timer's clock
\* (seconds).  The last two are refused.
Configs ==
    { [minInterval |-> 1, maxInterval |-> 5, burstRuns |-> 1, timer |-> NewTimer],
      [minInterval |-> 2, maxInterval |-> 2, burstRuns |-> 1, timer |-> NewTimer],
      [minInterval |-> 1, maxInterval |-> 2, burstRuns |-> 2, timer |-> NewTimer],
      [minInterval |-> 0, maxInterval |-> 2, burstRuns |-> 1, timer |-> NewTimer],
      [minInterval |-> 2, maxInterval |-> 1, burstRuns |-> 1, timer |-> NewTimer],
      [minInterval |-> 1, maxInterval |-> 5, burstRuns |-> 1, timer |-> NilTimer] }

\* The runner of bursts: two runs at once, then one per tick.
BurstConfigs ==
    { [minInterval |-> 1, maxInterval |-> 10, burstRuns |-> 2, timer |-> NewTimer] }

\* The intervals RetryAfter is called with.
RetryIntervals == {1, 3}

\* The duration the time package saturates to (a time minus the zero time):
\* the largest Duration, for which the largest integer of the model stands;
\* it exceeds every interval and every time of the clock, in ticks and in
\* nanoseconds.
maxDuration == 2147483647

\* make(chan struct{}, 1): the capacity of the run and retry channels.
RunChanCap == 1
RetryChanCap == 1

\* The capacity of the channel of a time.Timer.
TimerChanCap == 1

Min2(a, b) == IF a <= b THEN a ELSE b
Max2(a, b) == IF a >= b THEN a ELSE b

\* A non-blocking send (select with a default case) on a channel that holds
\* n values and has capacity cap.
TrySend(n, cap) == IF n < cap THEN n + 1 ELSE n

\* realTimer.Reset
TimerReset(tm, now, d) == [tm EXCEPT !.next = now + d, !.active = TRUE]

\* realTimer.Stop: a tick already in the channel stays there.
TimerStop(tm) == [tm EXCEPT !.active = FALSE]

\* realTimer.Remaining
TimerRemaining(tm, now) == IF tm.next = ZeroTime THEN 0 - maxDuration ELSE tm.next - now

\* realTimer.Since
TimerSince(now, t0) == IF t0 = ZeroTime THEN maxDuration ELSE now - t0

(***************************************************************************)
(* The rate of the limiter as construct computes it                        *)
(***************************************************************************)

\* The bits of the significand of a float32.
Float32Bits == 24

RECURSIVE Pow2(_)
Pow2(n) == IF n = 0 THEN 1 ELSE 2 * Pow2(n - 1)

\* The low bits of n >= 0 that do not fit in the significand.
RECURSIVE ExcessBits(_)
ExcessBits(n) == IF n < Pow2(Float32Bits) THEN 0 ELSE 1 + ExcessBits(n \div 2)

\* float32(n) for a duration n >= 0: n rounded to Float32Bits significant
\* bits, ties to even.
Float32OfInt(n) ==
    LET unit == Pow2(ExcessBits(n))
        q == n \div unit
        r == n % unit
        up == 2 * r > unit \/ (2 * r = unit /\ q % 2 = 1)
    IN (IF up THEN q + 1 ELSE q) * unit

\* a and b without the factors of two they share.
RECURSIVE Reduced(_, _)
Reduced(a, b) ==
    IF a > 0 /\ a % 2 = 0 /\ b % 2 = 0 THEN Reduced(a \div 2, b \div 2) ELSE <<a, b>>

\* Long division by b, one bit at a time, from quotient q and remainder r
\* until the quotient has Float32Bits + 1 bits; k counts the bits produced.
RECURSIVE DivideBits(_, _, _, _)
DivideBits(q, r, b, k) ==
    IF q >= Pow2(Float32Bits) THEN [q |-> q, r |-> r, k |-> k]
    ELSE IF 2 * r >= b THEN DivideBits(2 * q + 1, 2 * r - b, b, k + 1)
    ELSE DivideBits(2 * q, 2 * r, b, k + 1)

\* The float32 quotient a / b of two float32 values that are whole numbers,
\* 0 < a and a / b < 2^Float32Bits: the value m / 2^k, rounded to
\* Float32Bits significant bits, ties to even.
Float32Quotient(a, b) ==
    LET ab == Reduced(a, b)
        d == DivideBits(ab[1] \div ab[2], ab[1] % ab[2], ab[2], 0)
        m == d.q \div 2
        up == d.q % 2 = 1 /\ (d.r > 0 \/ m % 2 = 1)
    IN [m |-> IF up THEN m + 1 ELSE m, k |-> d.k - 1]

\* qps := float32(time.Second) / float32(minInterval)
Qps(minInterval) == Float32Quotient(Float32OfInt(Second), Float32OfInt(minInterval))

\* The quotient and the remainder of (q * m + r) * 2^k by m.
RECURSIVE TimesPow2Over(_, _, _, _)
TimesPow2Over(q, r, m, k) ==
    IF k = 0 THEN [q |-> q, r |-> r]
    ELSE IF 2 * r >= m THEN TimesPow2Over(2 * q + 1, 2 * r - m, m, k - 1)
    ELSE TimesPow2Over(2 * q, 2 * r, m, k - 1)

\* The time a bucket filled at qps tokens a second takes to hold one token:
\* the first whole number of nanoseconds d with d * qps >= Second.
RefillTime(qps) ==
    LET d == TimesPow2Over(Second \div qps.m, Second % qps.m, qps.m, qps.k)
    IN IF d.r = 0 THEN d.q ELSE d.q + 1

(***************************************************************************)
(* BoundedFrequencyRunner: the limiter and construct                       *)
(***************************************************************************)

\* nullLimiter
NullLimiter ==
    [kind |-> "null", tokens |-> 0, per |-> 0, burst |-> 0, unit |-> 1, stopped |-> FALSE]

\* The token bucket of flowcontrol, filled at qps tokens a second on the
\* clock whose unit is unit nanoseconds: burst tokens at most, one more
\* token every per nanoseconds, full at the start.  tokens counts
\* nanoseconds' worth of tokens.
TokenBucket(qps, burst, unit) ==
    [kind |-> "bucket", tokens |-> burst * RefillTime(qps), per |-> RefillTime(qps),
     burst |-> burst, unit |-> unit, stopped |-> FALSE]

\* TryAccept as it would be if the null limiter refused.
TryAccept_nullRefuses(l) == l.kind = "bucket" /\ l.tokens >= l.per

\* rateLimiter.TryAccept: whether a token is there.
TryAccept(l) == l.kind = "null" \/ l.tokens >= l.per

\* The limiter after TryAccept returned true.
TokenTaken(l) == IF l.kind = "null" THEN l ELSE [l EXCEPT !.tokens = @ - l.per]

\* rateLimiter.Stop
LimiterStop(l) == [l EXCEPT !.stopped = TRUE]

\* The limiter d units of the clock later.
RefilledAfter(l, d) ==
    IF l.kind = "null" THEN l
    ELSE [l EXCEPT !.tokens = IF d * l.unit >= l.burst * l.per - @
                              THEN l.burst * l.per ELSE @ + d * l.unit]

\* The limiter one tick later.
Refilled(l) == RefilledAfter(l, 1)

\* construct as it would be if it refused equal intervals too.
constructPanics_equalRefused(minInterval, maxInterval, tm) ==
    maxInterval <= minInterval \/ tm = NilTimer

\* construct: the arguments it panics on.
constructPanics(minInterval, maxInterval, tm) ==
    maxInterval < minInterval \/ tm = NilTimer

\* construct as it would be if the limiter allowed no burst.
construct_noBurst(minInterval, maxInterval, burstRuns, tm) ==
    [minInterval |-> minInterval,
     maxInterval |-> maxInterval,
     run |-> 0,
     retry |-> 0,
     mu |-> "free",
     lastRun |-> ZeroTime,
     retryTime |-> ZeroTime,
     timer |-> tm,
     limiter |-> IF minInterval = 0 THEN NullLimiter
                 ELSE TokenBucket(Qps(minInterval * tm.unit), 1, tm.unit)]

\* construct, for maxInterval >= minInterval and a non-nil timer: the
\* limiter is filled at the rate computed in float32 from minInterval, a
\* Duration, and runs on the timer's clock.
construct(minInterval, maxInterval, burstRuns, tm) ==
    [minInterval |-> minInterval,
     maxInterval |-> maxInterval,
     run |-> 0,
     retry |-> 0,
     mu |-> "free",
     lastRun |-> ZeroTime,
     retryTime |-> ZeroTime,
     timer |-> tm,
     limiter |-> IF minInterval = 0 THEN NullLimiter
                 ELSE TokenBucket(Qps(minInterval * tm.unit), burstRuns, tm.unit)]

\* No runner: construct has panicked.
NoBFR ==
    [minInterval |-> 0, maxInterval |-> 0, run |-> 0, retry |-> 0, mu |-> "free",
     lastRun |-> ZeroTime, retryTime |-> ZeroTime, timer |-> NewTimer,
     limiter |-> NullLimiter]

\* A time that is not there, in the history.
Never == 0 - 1

NoHistory ==
    [step |-> "construct", args |-> EmptyMap, calls |-> 0, loopStart |-> Never,
     lastStart |-> Never, lastEnd |-> Never, startGap |-> Never, endGap |-> Never,
     starts |-> 0, tracking |-> FALSE, runsInFn |-> 0, runRecv |-> 0,
     retryDue |-> Never, refused |-> Never, throttled |-> FALSE, fnSlow |-> FALSE,
     runsAt0 |-> 0, dropped |-> FALSE, runAt |-> Never,
     retryMin |-> Never, retryN |-> 0,
     runDue |-> Never]

(***************************************************************************)
(* BoundedFrequencyRunner: the state machine                               *)
(***************************************************************************)

\* construct has returned a runner, or has panicked: Loop is not running yet.
InitWith(configs) ==
    /\ InitTracker({"IPv4"}, {"newServiceInfo"})
    /\ \E c \in configs :
          /\ IF constructPanics(c.minInterval, c.maxInterval, c.timer)
             THEN bfr = NoBFR /\ loop = "panic"
             ELSE /\ bfr = construct(c.minInterval, c.maxInterval, c.burstRuns, c.timer)
                  /\ loop = "idle"
          /\ hist = [NoHistory EXCEPT !.args = c]
    /\ clock = 0
    /\ stopCh = FALSE
    /\ fnActive = 0

InitBFR == InitWith(Configs)

InitBurst == InitWith(BurstConfigs)

\* Loop as it would be without the first Reset of the timer.
LoopStart_noTimer ==
    /\ loop = "idle"
    /\ bfr' = bfr
    /\ loop' = "select"
    /\ hist' = [hist EXCEPT !.step = "Loop", !.loopStart = clock]
    /\ UNCHANGED <<clock, stopCh, fnActive, svcVars>>

\* Loop, up to its select.
LoopStart ==
    /\ loop = "idle"
    /\ bfr' = [bfr EXCEPT !.timer = TimerReset(@, clock, bfr.maxInterval)]
    /\ loop' = "select"
    /\ hist' = [hist EXCEPT !.step = "Loop", !.loopStart = clock]
    /\ UNCHANGED <<clock, stopCh, fnActive, svcVars>>

\* case <-stop as it would be if stop left the timer running.
SelectStop_keepsTimer ==
    /\ loop = "select"
    /\ stopCh
    /\ bfr.mu = "free"
    /\ bfr' = [bfr EXCEPT !.limiter = LimiterStop(@)]
    /\ loop' = "done"
    /\ hist' = [hist EXCEPT !.step = "stop"]
    /\ UNCHANGED <<clock, stopCh, fnActive, svcVars>>

\* case <-stop: bfr.stop() and return.
SelectStop ==
    /\ loop = "select"
    /\ stopCh
    /\ bfr.mu = "free"
    /\ bfr' = [bfr EXCEPT !.limiter = LimiterStop(@), !.timer = TimerStop(@)]
    /\ loop' = "done"
    /\ hist' = [hist EXCEPT !.step = "stop"]
    /\ UNCHANGED <<clock, stopCh, fnActive, svcVars>>

\* case <-bfr.timer.C()
SelectTimer ==
    /\ loop = "select"
    /\ bfr.timer.C > 0
    /\ bfr' = [bfr EXCEPT !.timer.C = @ - 1]
    /\ loop' = "tryRun"
    /\ hist' = [hist EXCEPT !.step = "timer"]
    /\ UNCHANGED <<clock, stopCh, fnActive, svcVars>>

\* case <-bfr.run
SelectRun ==
    /\ loop = "select"
    /\ bfr.run > 0
    /\ bfr' = [bfr EXCEPT !.run = @ - 1]
    /\ loop' = "tryRun"
    /\ hist' = [hist EXCEPT !.step = "run", !.runRecv = IF hist.tracking THEN @ + 1 ELSE @]
    /\ UNCHANGED <<clock, stopCh, fnActive, svcVars>>

\* case <-bfr.retry
SelectRetry ==
    /\ loop = "select"
    /\ bfr.retry > 0
    /\ bfr' = [bfr EXCEPT !.retry = @ - 1]
    /\ loop' = "doRetry"
    /\ hist' = [hist EXCEPT !.step = "retry", !.retryMin = Never, !.retryN = 0]
    /\ UNCHANGED <<clock, stopCh, fnActive, svcVars>>

\* tryRun when the limiter accepts: the lock is taken and fn is called.
TryRunAccept ==
    /\ loop = "tryRun"
    /\ bfr.mu = "free"
    /\ TryAccept(bfr.limiter)
    /\ bfr' = [bfr EXCEPT !.mu = "loop", !.limiter = TokenTaken(@)]
    /\ loop' = "fn"
    /\ fnActive' = fnActive + 1
    /\ hist' = [hist EXCEPT !.step = "fn", !.lastStart = clock,
                  !.startGap = IF hist.lastStart = Never THEN Never ELSE clock - hist.lastStart,
                  !.endGap = IF hist.lastEnd = Never THEN Never ELSE clock - hist.lastEnd,
                  !.starts = @ + 1,
                  !.tracking = TRUE, !.runsInFn = 0, !.runRecv = 0,
                  !.retryDue = Never, !.runAt = Never, !.runDue = Never]
    /\ UNCHANGED <<clock, stopCh, svcVars>>

\* The end of tryRun as it would be with the periodic timer set to twice
\* the maximum interval.
FnReturn_doubleInterval ==
    /\ loop = "fn"
    /\ bfr' = [bfr EXCEPT !.lastRun = clock,
                          !.timer = TimerReset(TimerStop(@), clock, 2 * bfr.maxInterval),
                          !.mu = "free"]
    /\ loop' = "select"
    /\ fnActive' = fnActive - 1
    /\ hist' = [hist EXCEPT !.step = "ran", !.lastEnd = clock]
    /\ UNCHANGED <<clock, stopCh, svcVars>>

\* The end of tryRun as it would be with lastRun set to the time fn started.
FnReturn_lastRunAtStart ==
    /\ loop = "fn"
    /\ bfr' = [bfr EXCEPT !.lastRun = hist.lastStart,
                          !.timer = TimerReset(TimerStop(@), clock, bfr.maxInterval),
                          !.mu = "free"]
    /\ loop' = "select"
    /\ fnActive' = fnActive - 1
    /\ hist' = [hist EXCEPT !.step = "ran", !.lastEnd = clock]
    /\ UNCHANGED <<clock, stopCh, svcVars>>

\* The end of tryRun as it would be if the timer were stopped and not set again.
FnReturn_noReset ==
    /\ loop = "fn"
    /\ bfr' = [bfr EXCEPT !.lastRun = clock,
                          !.timer = TimerStop(@),
                          !.mu = "free"]
    /\ loop' = "select"
    /\ fnActive' = fnActive - 1
    /\ hist' = [hist EXCEPT !.step = "ran", !.lastEnd = clock]
    /\ UNCHANGED <<clock, stopCh, svcVars>>

\* tryRun after fn has returned: lastRun, the timer and the lock.
FnReturn ==
    /\ loop = "fn"
    /\ bfr' = [bfr EXCEPT !.lastRun = clock,
                          !.timer = TimerReset(TimerStop(@), clock, bfr.maxInterval),
                          !.mu = "free"]
    /\ loop' = "select"
    /\ fnActive' = fnActive - 1
    /\ hist' = [hist EXCEPT !.step = "ran", !.lastEnd = clock]
    /\ UNCHANGED <<clock, stopCh, svcVars>>

\* tryRun as it would be if a refused run left the timer as it was.
TryRunThrottled_keepsTimer ==
    /\ loop = "tryRun"
    /\ bfr.mu = "free"
    /\ ~TryAccept(bfr.limiter)
    /\ bfr' = bfr
    /\ loop' = "select"
    /\ hist' = [hist EXCEPT !.step = "throttled", !.throttled = TRUE, !.refused = clock]
    /\ UNCHANGED <<clock, stopCh, fnActive, svcVars>>

\* tryRun as it would be if it set the timer to the later of the two times.
TryRunThrottled_later ==
    /\ loop = "tryRun"
    /\ bfr.mu = "free"
    /\ ~TryAccept(bfr.limiter)
    /\ LET elapsed == TimerSince(clock, bfr.lastRun)
           nextPossible == bfr.minInterval - elapsed
           nextScheduled == TimerRemaining(bfr.timer, clock)
           d == IF nextPossible > nextScheduled THEN nextPossible ELSE nextScheduled
       IN bfr' = [bfr EXCEPT !.timer = TimerReset(TimerStop(@), clock, d)]
    /\ loop' = "select"
    /\ hist' = [hist EXCEPT !.step = "throttled", !.throttled = TRUE, !.refused = clock]
    /\ UNCHANGED <<clock, stopCh, fnActive, svcVars>>

\* tryRun when the limiter refuses.
TryRunThrottled ==
    /\ loop = "tryRun"
    /\ bfr.mu = "free"
    /\ ~TryAccept(bfr.limiter)
    /\ LET elapsed == TimerSince(clock, bfr.lastRun)
           nextPossible == bfr.minInterval - elapsed
           nextScheduled == TimerRemaining(bfr.timer, clock)
           d == IF nextPossible < nextScheduled THEN nextPossible ELSE nextScheduled
       IN bfr' = [bfr EXCEPT !.timer = TimerReset(TimerStop(@), clock, d)]
    /\ loop' = "select"
    /\ hist' = [hist EXCEPT !.step = "throttled", !.throttled = TRUE, !.refused = clock]
    /\ UNCHANGED <<clock, stopCh, fnActive, svcVars>>

\* doRetry as it would be if it always set the timer to the retry time.
DoRetry_alwaysResets ==
    /\ loop = "doRetry"
    /\ bfr.mu = "free"
    /\ IF bfr.retryTime = ZeroTime
       THEN bfr' = bfr
       ELSE bfr' = [bfr EXCEPT
                      !.retryTime = ZeroTime,
                      !.timer = TimerReset(TimerStop(@), clock, bfr.retryTime - clock)]
    /\ loop' = "select"
    /\ hist' = [hist EXCEPT !.step = "doRetry"]
    /\ UNCHANGED <<clock, stopCh, fnActive, svcVars>>

\* doRetry as it would be if it dropped the request instead of setting the timer.
DoRetry_dropsRequest ==
    /\ loop = "doRetry"
    /\ bfr.mu = "free"
    /\ bfr' = [bfr EXCEPT !.retryTime = ZeroTime]
    /\ loop' = "select"
    /\ hist' = [hist EXCEPT !.step = "doRetry"]
    /\ UNCHANGED <<clock, stopCh, fnActive, svcVars>>

\* doRetry as it would be if it cleared retryTime only when it sets the timer.
DoRetry_keepsRetryTime ==
    /\ loop = "doRetry"
    /\ bfr.mu = "free"
    /\ IF bfr.retryTime = ZeroTime
       THEN bfr' = bfr
       ELSE LET retryInterval == bfr.retryTime - clock
            IN bfr' = [bfr EXCEPT
                         !.retryTime = IF retryInterval < TimerRemaining(bfr.timer, clock)
                                      THEN ZeroTime ELSE @,
                         !.timer = IF retryInterval < TimerRemaining(bfr.timer, clock)
                                   THEN TimerReset(TimerStop(@), clock, retryInterval)
                                   ELSE @]
    /\ loop' = "select"
    /\ hist' = [hist EXCEPT !.step = "doRetry"]
    /\ UNCHANGED <<clock, stopCh, fnActive, svcVars>>

\* doRetry
DoRetry ==
    /\ loop = "doRetry"
    /\ bfr.mu = "free"
    /\ IF bfr.retryTime = ZeroTime
       THEN bfr' = bfr
       ELSE LET retryInterval == bfr.retryTime - clock
            IN bfr' = [bfr EXCEPT
                         !.retryTime = ZeroTime,
                         !.timer = IF retryInterval < TimerRemaining(bfr.timer, clock)
                                   THEN TimerReset(TimerStop(@), clock, retryInterval)
                                   ELSE @]
    /\ loop' = "select"
    /\ hist' = [hist EXCEPT !.step = IF bfr.retryTime = ZeroTime THEN "spurious" ELSE "doRetry"]
    /\ UNCHANGED <<clock, stopCh, fnActive, svcVars>>

\* The timer goes off: its tick is sent without blocking.
TimerFire ==
    /\ bfr.timer.active
    /\ bfr.timer.next <= clock
    /\ bfr' = [bfr EXCEPT !.timer.active = FALSE, !.timer.C = TrySend(@, TimerChanCap)]
    /\ hist' = [hist EXCEPT !.step = "fire"]
    /\ UNCHANGED <<clock, loop, stopCh, fnActive, svcVars>>

\* Run as it would be if the caller invoked fn itself.
Run_callsFn ==
    /\ bfr' = [bfr EXCEPT !.run = TrySend(@, RunChanCap)]
    /\ fnActive' = fnActive + 1

\* Run as it would be with a channel that takes every signal.
Run_queuesAll ==
    /\ bfr' = [bfr EXCEPT !.run = @ + 1]
    /\ fnActive' = fnActive

\* Run, in the caller's goroutine.
Run ==
    /\ bfr' = [bfr EXCEPT !.run = TrySend(@, RunChanCap)]
    /\ fnActive' = fnActive

\* RetryAfter as it would be if it took the lock that guards fn.
RetryAfter_locksMu(retryTime) ==
    /\ bfr.mu = "free"
    /\ bfr' = IF bfr.retryTime # ZeroTime /\ bfr.retryTime < retryTime
              THEN bfr
              ELSE [bfr EXCEPT !.retryTime = retryTime,
                               !.retry = TrySend(@, RetryChanCap)]
    /\ fnActive' = fnActive

\* RetryAfter as it would be if it kept the latest request.
RetryAfter_keepsLatest(retryTime) ==
    /\ bfr' = [bfr EXCEPT !.retryTime = retryTime,
                          !.retry = TrySend(@, RetryChanCap)]
    /\ fnActive' = fnActive

\* RetryAfter as it would be if it recorded the time and sent no signal.
RetryAfter_noSignal(retryTime) ==
    /\ bfr' = IF bfr.retryTime # ZeroTime /\ bfr.retryTime < retryTime
              THEN bfr
              ELSE [bfr EXCEPT !.retryTime = retryTime]
    /\ fnActive' = fnActive

\* RetryAfter, in the caller's goroutine (which may be the one running fn),
\* from the point where it holds retryMu; retryTime is the time it computed
\* from the clock before that.
RetryAfter(retryTime) ==
    /\ bfr' = IF bfr.retryTime # ZeroTime /\ bfr.retryTime < retryTime
              THEN bfr
              ELSE [bfr EXCEPT !.retryTime = retryTime,
                               !.retry = TrySend(@, RetryChanCap)]
    /\ fnActive' = fnActive

\* The Loop goroutine is running and has not been told to stop.
Looping == loop \in {"select", "tryRun", "doRetry", "fn"} /\ ~stopCh

\* The time until the limiter has a token, if none is taken before, in
\* units of the clock.
RateLimitDelay(l) ==
    IF l.kind = "null" THEN 0
    ELSE LET ns == Max2(0, l.per - l.tokens)
         IN ns \div l.unit + (IF ns % l.unit = 0 THEN 0 ELSE 1)

\* The time until the timer goes off; none when it has gone off already.
PendingTimerDelay(tm, now) == IF tm.active THEN Max2(0, tm.next - now) ELSE 0

\* The time by which a call of Run made now is to be followed by a start.
RunDeadline == clock + Max2(RateLimitDelay(bfr.limiter), PendingTimerDelay(bfr.timer, clock))

\* A caller calls Run.
CallRun ==
    /\ loop # "panic"
    /\ hist.calls < MaxCalls
    /\ Run
    /\ hist' = [hist EXCEPT !.step = "Run", !.calls = @ + 1,
                  !.runsInFn = IF loop = "fn" THEN Min2(@ + 1, MaxCalls) ELSE @,
                  !.tracking = IF loop = "fn" THEN @ ELSE FALSE,
                  !.runAt = IF Looping /\ @ = Never THEN clock ELSE @,
                  !.runDue = IF ~Looping THEN @
                             ELSE IF @ = Never THEN RunDeadline
                             ELSE Min2(@, RunDeadline)]
    /\ UNCHANGED <<clock, loop, stopCh, svcVars>>

\* A caller calls Run on the runner of bursts.
BurstRun ==
    /\ loop # "panic"
    /\ hist.calls < MaxRuns
    /\ Run
    /\ hist' = [hist EXCEPT !.step = "Run", !.calls = @ + 1,
                  !.runsInFn = IF loop = "fn" THEN Min2(@ + 1, MaxRuns) ELSE @,
                  !.tracking = IF loop = "fn" THEN @ ELSE FALSE,
                  !.runsAt0 = IF Looping /\ clock = 0 THEN @ + 1 ELSE @,
                  !.dropped = @ \/ bfr.run = RunChanCap]
    /\ UNCHANGED <<clock, loop, stopCh, svcVars>>

\* The time by which a request made with retryTime and recorded now is to
\* be followed by a start: retryTime, or now when the caller got retryMu
\* after it.
RetryDue(retryTime) == Max2(retryTime, clock)

\* A caller calls RetryAfter.  It reads the clock first and holds retryMu
\* only afterwards: the step is the part under retryMu, made with the time
\* the caller read lag ticks before (reading the clock changes nothing the
\* other goroutines see).
CallRetryAfter(interval, lag) ==
    /\ loop # "panic"
    /\ hist.calls < MaxCalls
    /\ lag <= clock
    /\ LET retryTime == (clock - lag) + interval
       IN /\ RetryAfter(retryTime)
          /\ hist' = [hist EXCEPT !.step = "RetryAfter", !.calls = @ + 1,
                        !.retryN = IF loop = "doRetry" THEN @ ELSE @ + 1,
                        !.retryMin = IF loop = "doRetry" THEN @
                                     ELSE IF @ = Never THEN retryTime
                                     ELSE Min2(@, retryTime),
                        !.retryDue = IF ~Looping THEN @
                                     ELSE IF @ = Never THEN RetryDue(retryTime)
                                     ELSE Min2(@, RetryDue(retryTime))]
    /\ UNCHANGED <<clock, loop, stopCh, svcVars>>

\* The owner of the runner closes the stop channel.
CloseStop ==
    /\ loop # "panic"
    /\ ~stopCh
    /\ stopCh' = TRUE
    /\ hist' = [hist EXCEPT !.step = "close", !.retryDue = Never, !.runAt = Never,
                  !.runDue = Never]
    /\ UNCHANGED <<bfr, clock, loop, fnActive, svcVars>>

\* The timer is due to go off.
TimerDue == bfr.timer.active /\ bfr.timer.next <= clock

\* A tick of the clock, which starts when Loop is started and is followed
\* until Loop returns.  The goroutines are prompt: time does not pass while
\* the Loop goroutine has a signal to receive or a handler to finish, nor
\* while the timer is due; but it does pass while Loop spins on a timer that
\* a throttled tryRun has reset to go off at once, and while fn runs.
Tick ==
    /\ clock < MaxTime
    /\ loop \in {"select", "fn"}
    /\ loop = "fn" => clock - hist.lastStart < MaxFnTime
    /\ loop = "select" => ~stopCh /\ bfr.run = 0 /\ bfr.retry = 0
    /\ hist.throttled \/ ~(TimerDue \/ (loop = "select" /\ bfr.timer.C > 0))
    /\ clock' = clock + 1
    /\ bfr' = [bfr EXCEPT !.limiter = Refilled(@)]
    /\ hist' = [hist EXCEPT !.step = "tick", !.throttled = FALSE,
                  !.fnSlow = @ \/ loop = "fn"]
    /\ UNCHANGED <<loop, stopCh, fnActive, svcVars>>

NextBFR ==
    \/ LoopStart
    \/ SelectStop
    \/ SelectTimer
    \/ SelectRun
    \/ SelectRetry
    \/ TryRunAccept
    \/ FnReturn
    \/ TryRunThrottled
    \/ DoRetry
    \/ TimerFire
    \/ CallRun
    \/ \E interval \in RetryIntervals, lag \in 0..MaxLag : CallRetryAfter(interval, lag)
    \/ CloseStop
    \/ Tick

SpecBFR == InitBFR /\ [][NextBFR]_vars

\* The runner of bursts, with calls of Run only.
NextBurst ==
    \/ LoopStart
    \/ SelectTimer
    \/ SelectRun
    \/ TryRunAccept
    \/ FnReturn
    \/ TryRunThrottled
    \/ TimerFire
    \/ BurstRun
    \/ Tick

SpecBurst == InitBurst /\ [][NextBurst]_vars

(***************************************************************************)
(* Runners whose clock counts nanoseconds                                   *)
(***************************************************************************)

\* The longest min_interval explored, in tenths of a second.
MaxTenths == 9

\* The arguments of the runners whose clock counts nanoseconds:
\* min_interval a number of tenths of a second, max_interval one second,
\* burst_runs 1.
QpsConfigs ==
    { [minInterval |-> d * (Second \div 10), maxInterval |-> Second,
       burstRuns |-> 1, timer |-> NanoTimer] : d \in 1..MaxTenths }

\* construct has returned one of these runners; the clock counts nanoseconds.
InitQps ==
    /\ InitTracker({"IPv4"}, {"newServiceInfo"})
    /\ \E c \in QpsConfigs :
          /\ bfr = construct(c.minInterval, c.maxInterval, c.burstRuns, c.timer)
          /\ hist = [NoHistory EXCEPT !.args = c]
    /\ loop = "idle"
    /\ clock = 0
    /\ stopCh = FALSE
    /\ fnActive = 0

\* The instants after now at which something changes: the limiter holds its
\* next token, the timer goes off, min_interval has passed since the last
\* start of fn.
NextInstants ==
    { t \in ({ clock + RateLimitDelay(bfr.limiter) }
             \cup (IF bfr.timer.active THEN { bfr.timer.next } ELSE {})
             \cup (IF hist.lastStart # Never
                   THEN { hist.lastStart + bfr.minInterval } ELSE {})) :
        t > clock }

\* Time passes, while Loop waits with nothing to receive, up to the next of
\* these instants; the first max_interval of the clock is followed.  As in
\* Tick, time also passes while Loop spins on a timer that a throttled
\* tryRun has reset to go off at once.
Elapse ==
    /\ loop = "select"
    /\ bfr.run = 0
    /\ hist.throttled \/ (bfr.timer.C = 0 /\ ~TimerDue)
    /\ \E t \in NextInstants :
          /\ \A u \in NextInstants : t <= u
          /\ t <= bfr.maxInterval
          /\ clock' = t
          /\ bfr' = [bfr EXCEPT !.limiter = RefilledAfter(@, t - clock)]
    /\ hist' = [hist EXCEPT !.step = "tick", !.throttled = FALSE]
    /\ UNCHANGED <<loop, stopCh, fnActive, svcVars>>

\* The runners whose clock counts nanoseconds, with calls of Run only; fn
\* returns at once.
NextQps ==
    \/ LoopStart
    \/ SelectTimer
    \/ SelectRun
    \/ TryRunAccept
    \/ FnReturn
    \/ TryRunThrottled
    \/ TimerFire
    \/ CallRun
    \/ Elapse

SpecQps == InitQps /\ [][NextQps]_vars

TypeOKBFR ==
    /\ bfr.run \in 0..RunChanCap
    /\ bfr.retry \in 0..RetryChanCap
    /\ bfr.timer.C \in 0..TimerChanCap
    /\ clock \in 0..MaxTime
    /\ fnActive \in 0..1
    /\ bfr.mu = "loop" <=> loop = "fn"

(***************************************************************************)
(* Helpers of the properties                                               *)
(***************************************************************************)

\* The pending map after the calls ops[i..] made on the pending map its
\* (none of which panics in the histories this is used on).
RECURSIVE PendingAfter(_, _, _)
PendingAfter(its, ops, i) ==
    IF i > Len(ops) THEN its
    ELSE IF ops[i].op = "Update"
    THEN PendingAfter(UpdateItems(ipFamily, makeServiceInfo, its, ops[i].svc).items, ops, i + 1)
    ELSE PendingAfter(DeleteItems(its, ops[i].key[1], ops[i].key[2]).items, ops, i + 1)

\* The snapshots and results an Apply can leave when made on snapshot pre
\* after the calls ops on a tracker with nothing pending.
ApplyAfter(pre, ops) ==
    LET a == SnapshotUpdate(pre, PendingAfter(EmptyMap, ops, 1))
    IN { [snap |-> a.snap, result |-> r] : r \in a.results }

\* What the last Apply left.
Observed == [snap |-> snapshot, result |-> result]

IsUpdateOf(c, k) == c.op = "Update" /\ ~c.svc.isNil /\ c.key = k

\* k saw one or more calls in ops, all of them Updates.
OnlyUpdated(ops, k) ==
    /\ \E i \in DOMAIN ops : IsUpdateOf(ops[i], k)
    /\ \A i \in DOMAIN ops : ops[i].key = k => IsUpdateOf(ops[i], k)

\* The last Update of k in ops.
LastUpdate(ops, k) ==
    ops[CHOOSE i \in DOMAIN ops :
          IsUpdateOf(ops[i], k) /\ \A j \in DOMAIN ops : IsUpdateOf(ops[j], k) => j <= i]

\* ops without the Updates of only-updated keys that a later Update follows.
RECURSIVE LastWriters(_, _)
LastWriters(ops, i) ==
    IF i > Len(ops) THEN <<>>
    ELSE LET c == ops[i]
             superseded == /\ OnlyUpdated(ops, c.key)
                           /\ \E j \in DOMAIN ops : j > i /\ IsUpdateOf(ops[j], c.key)
         IN IF superseded THEN LastWriters(ops, i + 1)
            ELSE <<c>> \o LastWriters(ops, i + 1)

\* The cluster IPs, as text, of the UDP ports stored under k in snap.
UDPClusterIPs(snap, k) ==
    IF k \in DOMAIN snap
    THEN { IPString(svcInfo.clusterIP) :
             svcInfo \in { i \in Range(snap[k]) : i.protocol = Protocol_UDP } }
    ELSE {}

\* The argument of the call that has just returned.
LastCall == log[Len(log)]

(***************************************************************************)
(* Properties                                                              *)
(***************************************************************************)

\* C1: when Apply returns, the tracker's pending map (items) is empty,
\* whatever Update and Delete calls came before it.
C1_PendingEmptyAfterApply ==
    last = "Apply" => DOMAIN items = {}

C1_Witness ==
    /\ last = "Apply"
    /\ DOMAIN applied.pending # {}
    /\ \E i, j \in DOMAIN applied.ops :
          applied.ops[i].op = "Update" /\ applied.ops[j].op = "Delete"
    /\ DOMAIN items = {}

\* C2 (as claimed): Update of a service right after Delete of its key
\* completes without failure and leaves the service's port map pending
\* under that key.
C2_UpdateOverwritesSentinel ==
    \A i \in DOMAIN log :
        (/\ i = Len(log) /\ i > 1
         /\ log[i - 1].op = "Delete"
         /\ IsUpdateOf(log[i], log[i - 1].key))
        => /\ ~panicked
           /\ log[i].key \in DOMAIN items
           /\ items[log[i].key] =
                 PtrTo(serviceToServiceMap(ipFamily, makeServiceInfo, log[i].svc))

\* C3: for every key that saw only Updates between two Applies, the snapshot
\* holds the port map of the last of them, and the snapshot and the
\* ApplyResult are those of an Apply after the last Update alone.
C3_LastWriterWins ==
    last = "Apply" =>
        /\ \A k \in Keys :
              OnlyUpdated(applied.ops, k) =>
                 /\ k \in DOMAIN snapshot
                 /\ snapshot[k] = serviceToServiceMap(ipFamily, makeServiceInfo,
                                                      LastUpdate(applied.ops, k).svc)
        /\ Observed \in ApplyAfter(applied.pre, LastWriters(applied.ops, 1))

C3_Witness ==
    /\ last = "Apply"
    /\ \E k \in Keys :
          /\ OnlyUpdated(applied.ops, k)
          /\ \E i, j \in DOMAIN applied.ops :
                /\ i < j
                /\ IsUpdateOf(applied.ops[i], k)
                /\ IsUpdateOf(applied.ops[j], k)
                /\ serviceToServiceMap(ipFamily, makeServiceInfo, applied.ops[i].svc)
                      # serviceToServiceMap(ipFamily, makeServiceInfo, applied.ops[j].svc)
          /\ snapshot[k] # EmptyMap
    /\ Len(LastWriters(applied.ops, 1)) < Len(applied.ops)

\* C4 (as claimed): an Apply whose only pending change is the Delete of a
\* service stored in the snapshot removes the entry and reports the cluster
\* IP of every UDP port of that service in udp_stale_cluster_ips.
C4_DeleteReportsUDPClusterIPs ==
    (/\ last = "Apply"
     /\ Len(applied.ops) = 1
     /\ applied.ops[1].op = "Delete"
     /\ applied.ops[1].key \in DOMAIN applied.pre)
    => /\ applied.ops[1].key \notin DOMAIN snapshot
       /\ UDPClusterIPs(applied.pre, applied.ops[1].key) \subseteq result.UDPStaleClusterIP

\* C5 (as claimed): after Apply, udp_stale_cluster_ips holds every cluster IP
\* of a UDP port of the pre-apply snapshot that is no longer the cluster IP
\* of a UDP port under the same key, in-place replacement included.
C5_StaleCoversEveryLostUDP ==
    last = "Apply" =>
        \A k \in DOMAIN applied.pre :
            (UDPClusterIPs(applied.pre, k) \ UDPClusterIPs(snapshot, k))
                \subseteq result.UDPStaleClusterIP

\* C6 (as claimed): a pending change that is an empty port mapping is applied
\* like the deletion sentinel: no snapshot entry is left under the key and the
\* UDP cluster IPs stored under it are reported stale.
C6_EmptyChangeIsDeletion ==
    last = "Apply" =>
        \A k \in DOMAIN applied.pending :
            (~applied.pending[k].isNil /\ applied.pending[k].ports = EmptyMap)
            => /\ k \notin DOMAIN snapshot
               /\ UDPClusterIPs(applied.pre, k) \subseteq result.UDPStaleClusterIP

\* C7 (as claimed): Update of a skippable service (no cluster IP, or type
\* ExternalName) stores an empty ServiceChange under its key.
C7_SkippableStoresEmptyChange ==
    (/\ last = "Update"
     /\ ~LastCall.svc.isNil
     /\ ShouldSkipService(LastCall.svc))
    => /\ LastCall.key \in DOMAIN items
       /\ items[LastCall.key].ports = EmptyMap

\* C8: with nothing stored under S's key, Apply after Update(S) and then
\* Delete of S's key leaves the snapshot and the ApplyResult of an Apply
\* after that Delete alone.
C8_UpdateThenDeleteIsDelete ==
    (/\ last = "Apply"
     /\ Len(applied.ops) = 2
     /\ IsUpdateOf(applied.ops[1], applied.ops[2].key)
     /\ applied.ops[2].op = "Delete"
     /\ applied.ops[2].key \notin DOMAIN applied.pre)
    => Observed \in ApplyAfter(applied.pre, <<applied.ops[2]>>)

C8_Witness ==
    /\ last = "Apply"
    /\ Len(applied.ops) = 2
    /\ IsUpdateOf(applied.ops[1], applied.ops[2].key)
    /\ applied.ops[2].op = "Delete"
    /\ applied.ops[2].key \notin DOMAIN applied.pre
    /\ serviceToServiceMap(ipFamily, makeServiceInfo, applied.ops[1].svc) # EmptyMap
    /\ applied.ops[2].key \notin DOMAIN snapshot

\* C9 (as claimed): a call to Update or Delete returns true exactly when the
\* pending set is non-empty as the call returns, for every argument.
C9_ReturnsPendingNonEmpty ==
    last \in {"Update", "Delete"} => (ret <=> DOMAIN items # {})

\* C9 (amended): Delete, and Update of a non-nil service when it returns,
\* return true and leave the pending set non-empty; Update(nil) returns false
\* whatever the pending set holds.
C9_ReturnValue ==
    last \in {"Update", "Delete"} =>
        IF LastCall.op = "Update" /\ LastCall.svc.isNil
        THEN ret = FALSE
        ELSE ret = TRUE /\ DOMAIN items # {}

C9_Witness ==
    /\ last = "Update"
    /\ LastCall.svc.isNil
    /\ DOMAIN items # {}
    /\ ret = FALSE

\* C10: after Apply, healthcheck_node_ports has an entry for a key exactly
\* when a ServicePort stored under that key in the snapshot has a non-zero
\* healthcheck_node_port, the entry holds such a port's value, and no key
\* absent from the snapshot has an entry.
C10_HealthCheckPortsFromSnapshot ==
    last = "Apply" =>
        /\ DOMAIN result.HCServiceNodePorts \subseteq DOMAIN snapshot
        /\ \A k \in DOMAIN snapshot :
              /\ k \in DOMAIN result.HCServiceNodePorts
                    <=> \E svc \in Range(snapshot[k]) : svc.healthCheckNodePort # 0
              /\ k \in DOMAIN result.HCServiceNodePorts
                    => \E svc \in Range(snapshot[k]) :
                          svc.healthCheckNodePort = result.HCServiceNodePorts[k]

C10_Witness ==
    /\ last = "Apply"
    /\ makeServiceInfo = "newServiceInfo"
    /\ \E k \in DOMAIN snapshot : Cardinality(DOMAIN snapshot[k]) = 2
    /\ DOMAIN applied.pending # {}
    /\ DOMAIN result.HCServiceNodePorts = {}

\* C11: the snapshot is mutated only by Apply: no call to Update or Delete,
\* returning or panicking, changes the snapshot.
C11_OnlyApplyMutatesSnapshot ==
    [][last' \in {"Update", "Delete", "Panic"} => snapshot' = snapshot]_vars

C11_Witness ==
    /\ last \in {"Update", "Delete"}
    /\ Len(log) >= 2
    /\ \E i, j \in DOMAIN log : log[i].op = "Update" /\ log[j].op = "Delete"
    /\ \E k \in DOMAIN snapshot : snapshot[k] # EmptyMap
    /\ \E k \in DOMAIN snapshot : k \in DOMAIN items /\ items[k] # PtrTo(snapshot[k])

(***************************************************************************)
(* Properties of the BoundedFrequencyRunner (specification SpecBFR)        *)
(***************************************************************************)

\* C12: at no time are two invocations of fn in progress.
C12_FnSerialized == fnActive <= 1

C12_Witness ==
    /\ fnActive = 1
    /\ loop = "fn"
    /\ bfr.run = 1
    /\ hist.runsInFn >= 1
    /\ hist.starts >= 2

\* C13: Run and RetryAfter can always complete, whatever the Loop goroutine
\* is doing: while fn runs under the lock, with a signal already queued,
\* before Loop starts and after it has returned.
C13_CallsNeverBlock ==
    /\ ENABLED Run
    /\ \A interval \in RetryIntervals : ENABLED RetryAfter(clock + interval)

C13_Witness ==
    /\ loop = "fn"
    /\ bfr.mu = "loop"
    /\ bfr.run = RunChanCap
    /\ bfr.retry = RetryChanCap
    /\ hist.step = "RetryAfter"

\* C14: the calls of Run made while one invocation of fn is in progress
\* leave at most one signal on the run channel, and at most one run signal
\* is received (one more tryRun made for them) after that invocation.
C14_RunsCoalesce ==
    /\ bfr.run <= 1
    /\ (hist.tracking /\ hist.runsInFn >= 1) => hist.runRecv <= 1

C14_Witness ==
    /\ hist.tracking
    /\ hist.runsInFn >= 2
    /\ hist.runRecv = 1
    /\ loop = "tryRun"
    /\ bfr.run = 0

\* C16 (as claimed): with min_interval > 0 and burst_runs = 1, fn starts at
\* least min_interval after the previous invocation returned, however long
\* that invocation took.
C16_MinIntervalAfterCompletion ==
    (bfr.minInterval > 0 /\ bfr.limiter.burst = 1 /\ hist.endGap # Never)
    => hist.endGap >= bfr.minInterval

\* The time of the last start of fn, or of the start of Loop before any.
LastStartOrLoop == IF hist.lastStart = Never THEN hist.loopStart ELSE hist.lastStart

\* The time of the last return of fn, or of the start of Loop before any.
LastEndOrLoop == IF hist.lastEnd = Never THEN hist.loopStart ELSE hist.lastEnd

Parked ==
    /\ loop = "select"
    /\ ~stopCh
    /\ bfr.run = 0 /\ bfr.retry = 0 /\ bfr.timer.C = 0
    /\ ~TimerDue

\* C18: with min_interval = 1, max_interval = 5, Loop started at 0, no call
\* of Run or RetryAfter and fn taking no time, fn starts exactly at 5, 10, ...
C18_PeriodicSelfTrigger ==
    (/\ bfr.minInterval = 1 /\ bfr.maxInterval = 5
     /\ hist.loopStart = 0 /\ hist.calls = 0 /\ ~stopCh /\ ~hist.fnSlow)
    => /\ hist.lastStart # Never => hist.lastStart = 5 * hist.starts
       /\ Parked => hist.starts = clock \div 5
       /\ hist.refused = Never

C18_Witness ==
    /\ bfr.minInterval = 1 /\ bfr.maxInterval = 5
    /\ hist.loopStart = 0 /\ hist.calls = 0 /\ ~stopCh /\ ~hist.fnSlow
    /\ Parked
    /\ clock = 10
    /\ hist.starts = 2
    /\ hist.lastStart = 10

\* The later of the retry deadline (the requested time, or the time the call
\* recorded it when the caller got retryMu after it) and the return of the
\* invocation of fn that was in progress at the deadline.
RetryDeadline == Max2(hist.retryDue, hist.lastEnd)

C20_RetryOnlySooner ==
    [][(loop = "doRetry" /\ loop' = "select")
       => /\ bfr'.timer.next <= bfr.timer.next
          /\ (bfr.retryTime = ZeroTime \/ bfr.retryTime >= bfr.timer.next)
                => bfr'.timer = bfr.timer]_vars

C20_Witness ==
    /\ hist.step = "doRetry"
    /\ bfr.retryTime = ZeroTime
    /\ bfr.timer.active
    /\ bfr.timer.next = hist.lastEnd + bfr.maxInterval
    /\ bfr.timer.next < clock + 3
    /\ hist.calls >= 1
\* C22: construct panics, and there is no runner, exactly when max_interval <
\* min_interval or the timer is nil; otherwise (max_interval = min_interval
\* included) the runner has the intervals and the timer it was given.
C22_ConstructPanicsOnBadArgs ==
    /\ loop = "panic" <=> \/ hist.args.maxInterval < hist.args.minInterval
                          \/ hist.args.timer = NilTimer
    /\ loop = "panic" => bfr = NoBFR /\ hist.starts = 0 /\ hist.calls = 0
    /\ loop # "panic" => /\ bfr.minInterval = hist.args.minInterval
                         /\ bfr.maxInterval = hist.args.maxInterval
                         /\ hist.args.timer = NewTimer

C22_Witness ==
    /\ loop = "panic"
    /\ hist.args.timer # NilTimer
    /\ hist.args.maxInterval < hist.args.minInterval
    /\ \E c \in Configs : c.maxInterval = c.minInterval /\ c.timer # NilTimer

\* C23: with min_interval = 0 the limiter is the null limiter: every tryRun
\* calls fn, and the throttled branch is never taken.
C23_NullLimiterAlwaysAccepts ==
    (hist.args.minInterval = 0 /\ loop # "panic")
    => /\ bfr.limiter.kind = "null"
       /\ hist.refused = Never
       /\ loop = "tryRun" => ENABLED TryRunAccept /\ ~ENABLED TryRunThrottled

C23_Witness ==
    /\ hist.args.minInterval = 0
    /\ hist.step = "fn"
    /\ loop = "fn"
    /\ hist.starts >= 2
    /\ hist.startGap = 0

\* What holds of every step whether or not stop is signalled: fn ends only
\* by returning, Loop returns only from its select, on stop, with the limiter
\* and the timer stopped, and once Loop has returned fn is not called again.
StopIsClean ==
    /\ (fnActive = 1 /\ fnActive' = 0) => (loop = "fn" /\ loop' = "select")
    /\ loop = "fn" => loop' \in {"fn", "select"}
    /\ (loop # "done" /\ loop' = "done")
          => /\ stopCh /\ loop = "select" /\ fnActive = 0
             /\ ~bfr'.timer.active
             /\ bfr'.limiter.stopped
    /\ loop = "done" => (loop' = "done" /\ fnActive' = 0 /\ ~bfr'.timer.active)

\* C24 (as claimed): once stop is signalled Loop returns at its next wait,
\* without interrupting fn, having stopped the limiter and the timer, and fn
\* is not called after Loop has returned.
C24_StopExitsAtNextWait ==
    [][/\ StopIsClean
       /\ (stopCh /\ loop = "select" /\ loop' # loop) => loop' = "done"]_vars

\* C24 (amended): the same, but Loop is only sure to return at a wait where
\* nothing else is ready: no run signal, no retry signal and no timer tick.
C24_StopExitsWhenNothingElseReady ==
    [][/\ StopIsClean
       /\ (/\ stopCh /\ loop = "select" /\ loop' # loop
           /\ bfr.run = 0 /\ bfr.retry = 0 /\ bfr.timer.C = 0) => loop' = "done"]_vars

C24_Witness ==
    /\ loop = "done"
    /\ stopCh
    /\ bfr.run = 1
    /\ bfr.retry = 1
    /\ hist.starts >= 1
    /\ fnActive = 0
    /\ bfr.limiter.stopped
    /\ ~bfr.timer.active

C26_EarliestRetryKept ==
    hist.retryMin # Never
    => /\ bfr.retryTime = hist.retryMin
       /\ bfr.retry = 1

C26_Witness ==
    /\ hist.step = "RetryAfter"
    /\ hist.retryN = 2
    /\ hist.retryMin = clock + 1
    /\ bfr.retryTime = clock + 1
    /\ bfr.retry = 1
    /\ loop = "fn"

\* C27 (as claimed): Loop never receives a timer tick left over from a
\* schedule that a later Stop and Reset superseded: when it receives a tick,
\* the timer has gone off and has not been set again since.
C27_NoStaleTimerEvent ==
    [][(loop = "select" /\ loop' = "tryRun" /\ bfr'.timer.C < bfr.timer.C)
       => ~bfr.timer.active]_vars

\* min_interval - (now - last_run), in a state where tryRun is about to run.
NextPossible == bfr.minInterval - (clock - bfr.lastRun)

\* What a refused tryRun leaves alone: fn is not called, lastRun is kept,
\* and the timer is set, to a time no later than the one it had.
ThrottledKeeps ==
    /\ fnActive' = fnActive
    /\ hist'.starts = hist.starts
    /\ bfr'.lastRun = bfr.lastRun
    /\ bfr'.timer.active
    /\ bfr'.timer.next <= bfr.timer.next

\* C28 (as claimed): a refused tryRun does not call fn, keeps lastRun, and
\* resets the timer to min(next_possible, remaining) with a negative
\* next_possible taken as 0: never to a negative duration, never later than
\* the timer was set.
C28_ThrottledResetsClamped ==
    [][(loop = "tryRun" /\ loop' = "select")
       => /\ ThrottledKeeps
          /\ bfr'.timer.next = clock + Min2(Max2(0, NextPossible), bfr.timer.next - clock)
          /\ bfr'.timer.next >= clock]_vars

\* C28 (amended): the same without the clamping: the duration is
\* min(next_possible, remaining) as it is, negative when the timer is overdue.
C28_ThrottledResetsToSooner ==
    [][(loop = "tryRun" /\ loop' = "select")
       => /\ ThrottledKeeps
          /\ bfr'.timer.next = clock + Min2(NextPossible, bfr.timer.next - clock)]_vars

C28_Witness ==
    /\ hist.step = "throttled"
    /\ loop = "select"
    /\ bfr.timer.active
    /\ bfr.timer.next < clock
    /\ bfr.lastRun # ZeroTime
    /\ bfr.lastRun + bfr.minInterval > clock

\* C29: an admitted tryRun calls fn once, with the lock held; when fn
\* returns lastRun is set to the time of the return and the timer to
\* max_interval after it; lastRun changes at no other step.
C29_AdmittedRunSetsLastRun ==
    [][/\ (loop = "tryRun" /\ loop' = "fn")
          => /\ fnActive' = fnActive + 1
             /\ hist'.starts = hist.starts + 1
             /\ bfr'.mu = "loop"
             /\ bfr'.timer = bfr.timer
       /\ loop = "fn" => bfr.mu = "loop" /\ fnActive = 1
       /\ (loop = "fn" /\ loop' # "fn")
          => /\ loop' = "select"
             /\ fnActive' = 0
             /\ hist'.starts = hist.starts
             /\ bfr'.mu = "free"
             /\ bfr'.lastRun = clock
             /\ bfr'.timer.active
             /\ bfr'.timer.next = clock + bfr.maxInterval
       /\ bfr'.lastRun # bfr.lastRun => (loop = "fn" /\ loop' = "select")]_vars

C29_Witness ==
    /\ hist.step = "ran"
    /\ hist.starts >= 2
    /\ hist.lastStart < clock
    /\ bfr.lastRun = clock
    /\ bfr.timer.active
    /\ bfr.timer.next = clock + bfr.maxInterval
    /\ bfr.mu = "free"

\* C30: doRetry with a zero retryTime changes nothing of the runner; with a
\* non-zero retryTime it always clears it, touches at most the timer besides,
\* and never calls fn.
C30_DoRetryClearsRetryTime ==
    [][(loop = "doRetry" /\ loop' # "doRetry")
       => /\ loop' = "select"
          /\ fnActive' = fnActive
          /\ hist'.starts = hist.starts
          /\ bfr'.retryTime = ZeroTime
          /\ bfr.retryTime = ZeroTime => bfr' = bfr
          /\ [bfr' EXCEPT !.timer = bfr.timer, !.retryTime = bfr.retryTime] = bfr]_vars

C30_Witness ==
    /\ hist.step = "spurious"
    /\ loop = "select"
    /\ bfr.retryTime = ZeroTime
    /\ hist.calls = 2
    /\ bfr.timer.active

\* C33: whenever Loop waits at its select (after its first Reset of the
\* timer and before it returns on stop), the timer is set and has yet to go
\* off, or its tick is waiting in the channel; neither tryRun, admitted or
\* throttled, nor doRetry leaves Loop waiting with no tick to come, and the
\* tick to come is no further than max_interval away.
C33_WaitingLoopHasTimerComing ==
    loop = "select" =>
        /\ bfr.timer.active \/ bfr.timer.C > 0
        /\ bfr.timer.active => bfr.timer.next - clock <= bfr.maxInterval

C33_Witness ==
    /\ loop = "select"
    /\ hist.step = "throttled"
    /\ ~stopCh
    /\ bfr.run = 0
    /\ bfr.retry = 0
    /\ bfr.timer.C = 0
    /\ bfr.timer.active
    /\ bfr.timer.next > clock

\* C34: no retry request is lost: whenever retryTime is set, a signal is in
\* the retry channel or Loop has received it and doRetry has yet to run,
\* however the calls of RetryAfter (the ones that return early included)
\* fall between Loop's receive and doRetry.
C34_RetryRequestHasSignal ==
    (loop # "panic" /\ bfr.retryTime # ZeroTime)
    => bfr.retry > 0 \/ loop = "doRetry"

C34_Witness ==
    /\ loop = "doRetry"
    /\ hist.step = "RetryAfter"
    /\ hist.calls = 2
    /\ bfr.retryTime # ZeroTime
    /\ bfr.retry > 0

(***************************************************************************)
(* Properties of one Apply (specification Spec)                            *)
(***************************************************************************)

\* A pending change that is a port map with one or more ports.
IsNonEmptyChange(pending, k) ==
    k \in DOMAIN pending /\ ~pending[k].isNil /\ pending[k].ports # EmptyMap

\* A pending change that is the nil left by Delete.
IsDeletion(pending, k) == k \in DOMAIN pending /\ pending[k].isNil

\* The last Update or Delete of k in ops.
LastOpOf(ops, k) ==
    ops[CHOOSE i \in DOMAIN ops :
          /\ (ops[i].op = "Delete" /\ ops[i].key = k) \/ IsUpdateOf(ops[i], k)
          /\ \A j \in DOMAIN ops :
                ((ops[j].op = "Delete" /\ ops[j].key = k) \/ IsUpdateOf(ops[j], k)) => j <= i]

\* k saw a call that left a pending change.
Touched(ops, k) ==
    \E i \in DOMAIN ops :
       (ops[i].op = "Delete" /\ ops[i].key = k) \/ IsUpdateOf(ops[i], k)

\* C31: Apply replaces wholesale and touches only pending keys: a key with
\* a non-empty pending change holds exactly that change afterwards, a key
\* with no pending change keeps its entry, and the deletion of a key the
\* snapshot does not hold changes neither the snapshot nor
\* udp_stale_cluster_ips.
C31_ApplyReplacesWholesale ==
    last = "Apply" =>
        /\ \A k \in Keys :
              /\ IsNonEmptyChange(applied.pending, k)
                    => k \in DOMAIN snapshot /\ snapshot[k] = applied.pending[k].ports
              /\ k \notin DOMAIN applied.pending
                    => /\ k \in DOMAIN snapshot <=> k \in DOMAIN applied.pre
                       /\ k \in DOMAIN applied.pre => snapshot[k] = applied.pre[k]
              /\ (IsDeletion(applied.pending, k) /\ k \notin DOMAIN applied.pre)
                    => k \notin DOMAIN snapshot
        /\ (\A k \in DOMAIN applied.pending :
               IsDeletion(applied.pending, k) /\ k \notin DOMAIN applied.pre)
              => snapshot = applied.pre /\ result.UDPStaleClusterIP = {}

C31_Witness ==
    /\ last = "Apply"
    /\ \E k, u \in Keys :
          /\ IsNonEmptyChange(applied.pending, k)
          /\ k \in DOMAIN applied.pre
          /\ \E n \in DOMAIN applied.pre[k] : n \notin DOMAIN applied.pending[k].ports
          /\ snapshot[k] = applied.pending[k].ports
          /\ u \notin DOMAIN applied.pending
          /\ u \in DOMAIN applied.pre
          /\ applied.pre[u] # EmptyMap
          /\ snapshot[u] = applied.pre[u]

\* C32: with Update, Delete and Apply serialized, no change is lost or
\* applied twice: when Apply returns, the snapshot shows the last call made
\* on every key since the Apply before it, and an Apply after no call
\* changes nothing; every call made after an Apply is pending under its key
\* until the next Apply, and the snapshot does not show it.
C32_NoChangeLostOrAppliedTwice ==
    /\ last = "Apply" =>
          /\ \A k \in Keys :
                Touched(applied.ops, k) =>
                   LET c == LastOpOf(applied.ops, k)
                   IN IF c.op = "Delete"
                      THEN k \notin DOMAIN snapshot
                      ELSE /\ k \in DOMAIN snapshot
                           /\ snapshot[k] =
                                 serviceToServiceMap(ipFamily, makeServiceInfo, c.svc)
          /\ (\A k \in Keys : ~Touched(applied.ops, k)) => snapshot = applied.pre
    /\ ~panicked =>
          \A k \in Keys :
             IF Touched(log, k)
             THEN LET c == LastOpOf(log, k)
                  IN /\ k \in DOMAIN items
                     /\ items[k] = IF c.op = "Delete" THEN NilChange
                                   ELSE PtrTo(serviceToServiceMap(ipFamily, makeServiceInfo,
                                                                  c.svc))
             ELSE k \notin DOMAIN items

C32_Witness ==
    /\ last = "Apply"
    /\ applied.pre # EmptyMap
    /\ \E k, u \in Keys :
          /\ k # u
          /\ Touched(applied.ops, k) /\ LastOpOf(applied.ops, k).op = "Delete"
          /\ k \in DOMAIN applied.pre /\ k \notin DOMAIN snapshot
          /\ Touched(applied.ops, u) /\ LastOpOf(applied.ops, u).op = "Update"
          /\ snapshot[u] # EmptyMap
          /\ (u \in DOMAIN applied.pre => applied.pre[u] # snapshot[u])

\* C36: udp_stale_cluster_ips is sound: every IP an Apply returns is the
\* cluster IP of a UDP port the snapshot held, before the Apply, under a key
\* whose pending change was the nil left by Delete.
C36_StaleIsSound ==
    last = "Apply" =>
        \A ip \in result.UDPStaleClusterIP :
           \E k \in Keys :
              /\ IsDeletion(applied.pending, k)
              /\ ip \in UDPClusterIPs(applied.pre, k)

C36_Witness ==
    /\ last = "Apply"
    /\ \E k, u \in Keys :
          /\ IsDeletion(applied.pending, k)
          /\ k \in DOMAIN applied.pre
          /\ \E i \in Range(applied.pre[k]) : i.protocol = Protocol_TCP
          /\ UDPClusterIPs(applied.pre, k) = {}
          /\ IsNonEmptyChange(applied.pending, u)
          /\ \E i \in Range(applied.pending[u].ports) : i.protocol = Protocol_UDP
          /\ \A ip \in result.UDPStaleClusterIP : ip \in UDPClusterIPs(applied.pre, k)

(***************************************************************************)
(* Properties of the runners whose clock counts nanoseconds (SpecQps)       *)
(***************************************************************************)

\* C15 (as claimed): with min_interval > 0 and burst_runs = 1, two
\* consecutive starts of fn are at least min_interval apart.
C15_MinIntervalBetweenStarts ==
    (bfr.minInterval > 0 /\ bfr.limiter.burst = 1 /\ hist.startGap # Never)
    => hist.startGap >= bfr.minInterval

\* C35 (as claimed), for the windows that two consecutive starts of fn
\* delimit: with min_interval > 0, the two starts in a window of length W
\* are no more than burst_runs + floor(W / min_interval).
C35_StartsInWindowBounded ==
    (bfr.minInterval > 0 /\ hist.startGap # Never)
    => 2 <= hist.args.burstRuns + (hist.startGap \div bfr.minInterval)

(***************************************************************************)
(* Properties of the runner of bursts (specification SpecBurst)            *)
(***************************************************************************)

\* Three calls of Run were made at time 0 with Loop running since 0, fn takes
\* no time, and Loop has handled everything there is to handle after time 0.
ThreeRunsAtZero ==
    /\ hist.args.minInterval = 1 /\ hist.args.maxInterval = 10
    /\ hist.args.burstRuns = 2
    /\ hist.loopStart = 0
    /\ hist.calls = 3 /\ hist.runsAt0 = 3
    /\ ~hist.fnSlow
    /\ Parked
    /\ clock \in 1..9

\* C21 (as claimed): with min_interval = 1, max_interval = 10, burst_runs = 2
\* and Loop running, three calls of Run at time 0 make fn start at 0, 0 and 1.
C21_BurstThenThrottled ==
    ThreeRunsAtZero
    => /\ hist.starts = 3
       /\ hist.lastStart = 1
       /\ hist.startGap = 1

\* C21 (amended): the same when none of the three calls found a signal
\* still queued; calls that did are coalesced and start fn fewer times.
C21_BurstThenThrottledIfReceived ==
    ThreeRunsAtZero
    => /\ ~hist.dropped => hist.starts = 3 /\ hist.lastStart = 1 /\ hist.startGap = 1
       /\ hist.dropped => hist.starts < 3 /\ hist.lastStart = 0

C21_Witness ==
    /\ ThreeRunsAtZero
    /\ ~hist.dropped
    /\ clock = 1
    /\ hist.starts = 3
    /\ hist.lastStart = 1
    /\ hist.refused = 0
====
